---- MODULE Spec2Model ----
(***************************************************************************)
(* A model of the Alchemy Chain Go SDK (alchemy.go): the canonical-message *)
(* builder, the signer, the JSON-RPC client, the typed operations, the     *)
(* balance query and the ResponseHandler wrapper.                          *)
(*                                                                         *)
(* Go strings that the code inspects or assembles (map keys, formatted     *)
(* values, hex results, error texts, the private key) are sequences of     *)
(* one-character strings.  Opaque identifiers (URLs, RPC method names) are *)
(* TLA+ strings.                                                           *)
(***************************************************************************)
EXTENDS Integers, Sequences, FiniteSets, TLC

VARIABLES
    \* ---- package globals (alchemy.go:18-22)
    baseURL, privateKey,
    \* ---- the call in flight: where it stands, its arguments, its locals
    \*      blockNum and balanceHex, the HTTP requests it has sent and the
    \*      outcomes it has got for them, the steps it has run
    pc, call, blockNum, balanceHex, sent, received, steps,
    \* ---- the *Signature the call holds between generateSignature and rpcCall,
    \*      and whether a Config has run since the call in flight was entered
    sig, interleaved,
    \* ---- the ResponseHandler the caller holds, the accessors chained on it
    \*      and the callbacks they have run
    wrapper, applied, callbacks,
    \* ---- the canonical-message builder run by a signer and by a verifier
    params, signerOrder, verifierOrder, signerMsg, verifierMsg

msgVars == <<params, signerOrder, verifierOrder, signerMsg, verifierMsg>>
cfgVars == <<baseURL, privateKey>>
callVars ==
    <<pc, call, blockNum, balanceHex, sent, received, steps, sig, interleaved,
      wrapper, applied, callbacks>>
vars == <<cfgVars, callVars, msgVars>>

(***************************************************************************)
(* Strings                                                                 *)
(***************************************************************************)

\* The characters the model uses, in ascending byte (ASCII) order.
ByteOrder ==
    <<" ", ",", "-", ".", "0", "1", "2", "3", "4", "5", "6", "7", "8", "9", ":",
      "A", "B", "C", "D", "E", "F", "G", "H", "I", "J", "K", "L", "M", "N", "O",
      "P", "Q", "R", "S", "T", "U", "V", "W", "X", "Y", "Z", "_",
      "a", "b", "c", "d", "e", "f", "g", "h", "i", "j", "k", "l", "m", "n", "o",
      "p", "q", "r", "s", "t", "u", "v", "w", "x", "y", "z">>

Chars == {ByteOrder[i] : i \in 1..Len(ByteOrder)}

\* The rank of a character in byte order.
Ord == [c \in Chars |-> CHOOSE i \in 1..Len(ByteOrder) : ByteOrder[i] = c]

\* Go's < on strings: bytewise lexicographic order.
RECURSIVE StrLess(_, _)
StrLess(a, b) ==
    IF Len(b) = 0 THEN FALSE
    ELSE IF Len(a) = 0 THEN TRUE
    ELSE IF Ord[a[1]] # Ord[b[1]] THEN Ord[a[1]] < Ord[b[1]]
    ELSE StrLess(Tail(a), Tail(b))

Digits == <<"0", "1", "2", "3", "4", "5", "6", "7", "8", "9">>

\* strconv's decimal form of a non-negative integer.
RECURSIVE FormatNat(_)
FormatNat(n) ==
    IF n < 10 THEN <<Digits[n + 1]>>
    ELSE FormatNat(n \div 10) \o <<Digits[(n % 10) + 1]>>

FormatInt(n) == IF n < 0 THEN <<"-">> \o FormatNat(-n) ELSE FormatNat(n)

(***************************************************************************)
(* Values held in a map[string]interface{}: [int |-> n] (int32, int64),    *)
(* [str |-> s] (string), [bool |-> b].                                     *)
(***************************************************************************)
IntV(n) == [int |-> n]
StrV(s) == [str |-> s]
BoolV(b) == [bool |-> b]

\* fmt.Sprintf("%v", value)
Sprintf(value) ==
    IF "int" \in DOMAIN value THEN FormatInt(value.int)
    ELSE IF "bool" \in DOMAIN value
         THEN (IF value.bool THEN <<"t", "r", "u", "e">> ELSE <<"f", "a", "l", "s", "e">>)
    ELSE value.str

(***************************************************************************)
(* buildSortedMessage                                                      *)
(***************************************************************************)

\* Insert key into an ascending list, before the first element it is less than.
RECURSIVE InsertSorted(_, _)
InsertSorted(key, sorted) ==
    IF Len(sorted) = 0 THEN <<key>>
    ELSE IF StrLess(key, sorted[1]) THEN <<key>> \o sorted
    ELSE <<sorted[1]>> \o InsertSorted(key, Tail(sorted))

\* (a build whose sort.Strings call is missing)
SortStrings_Missing(keys) == keys

\* sort.Strings(keys): ascending order of Go's < on strings.
RECURSIVE SortStrings(_)
SortStrings(keys) ==
    IF Len(keys) = 0 THEN <<>>
    ELSE InsertSorted(keys[1], SortStrings(Tail(keys)))

\* A Join that writes the separator after every part, the last included.
RECURSIVE Join_TrailingSep(_, _)
Join_TrailingSep(parts, sep) ==
    IF Len(parts) = 0 THEN <<>>
    ELSE parts[1] \o sep \o Join_TrailingSep(Tail(parts), sep)

\* strings.Join(parts, sep)
RECURSIVE Join(_, _)
Join(parts, sep) ==
    IF Len(parts) = 0 THEN <<>>
    ELSE IF Len(parts) = 1 THEN parts[1]
    ELSE parts[1] \o sep \o Join(Tail(parts), sep)

\* The sequences that list each element of set S once.
RECURSIVE Orders(_)
Orders(S) ==
    IF S = {} THEN {<<>>}
    ELSE UNION { {<<x>> \o o : o \in Orders(S \ {x})} : x \in S }

\* The orders in which `for key := range m` may visit the keys of map m.
RangeOrders(m) == Orders(DOMAIN m)

\* buildSortedMessage(params), the range loop visiting the keys in `order`.
buildSortedMessage(m, order) ==
    LET keys == SortStrings(order)
        messageParts == [i \in 1..Len(keys) |-> Sprintf(m[keys[i]])]
    IN  Join(messageParts, <<",">>)

(***************************************************************************)
(* Package globals                                                         *)
(***************************************************************************)
DefaultURL == "http://localhost:8545"

InitConfig ==
    /\ baseURL = DefaultURL
    /\ privateKey = <<>>

NotBuilt == [built |-> FALSE]
Built(msg) == [built |-> TRUE, msg |-> msg]

(***************************************************************************)
(* Go values: nil, pointers, errors                                        *)
(***************************************************************************)
Nil == [nil |-> TRUE]
Ptr(x) == [ptr |-> x]
\* An error value with its Error() text.
Err(text) == [msg |-> text]

\* ResponseHandler[T]{data, err} (the zero value of an omitted field is nil)
ResponseHandler(data, err) == [data |-> data, err |-> err]

(***************************************************************************)
(* JSON values and HTTP outcomes                                           *)
(***************************************************************************)
JNull == [null |-> TRUE]
JStr(s) == [str |-> s]
JNum(n) == [num |-> n]
JBool(b) == [bool |-> b]
\* An object, as a record from member name to JSON value.  Every envelope
\* carries "id" (JSON-RPC), so no object of the model is empty.
JObj(members) == [obj |-> members]
\* A body that is not valid JSON text.
Malformed == [malformed |-> TRUE]

IsNull(v) == "null" \in DOMAIN v
IsStr(v) == "str" \in DOMAIN v
IsNum(v) == "num" \in DOMAIN v
IsBool(v) == "bool" \in DOMAIN v
IsObj(v) == "obj" \in DOMAIN v

\* client.Post returns (resp, nil) with a body, or (nil, err).
HttpBody(b) == [body |-> b]
HttpFail == [fail |-> Err(<<"c", "o", "n", "n", "e", "c", "t", "i", "o", "n", " ",
                            "r", "e", "f", "u", "s", "e", "d">>)]
Failed(outcome) == "fail" \in DOMAIN outcome

\* json.Unmarshal into a struct field of type string: a JSON string is stored;
\* null, an absent member, or a value of another type leave "".
StringField(body, name) ==
    IF IsObj(body) /\ name \in DOMAIN body.obj /\ IsStr(body.obj[name])
    THEN body.obj[name].str
    ELSE <<>>

\* json.Unmarshal into the field Error *struct{ Message string }: an object
\* allocates the struct, null or an absent member leave the pointer nil.
\* (The envelopes of the model carry an object or null, as the wire protocol.)
ErrorField(body) ==
    IF IsObj(body) /\ "error" \in DOMAIN body.obj /\ IsObj(body.obj.error)
    THEN Ptr([Message |-> StringField(body.obj.error, "message")])
    ELSE Nil

\* json.Unmarshal into the field Result json.RawMessage: the member's raw text,
\* the text null included; nil when the member is absent or the body unparsed.
RawField(body) ==
    IF IsObj(body) /\ "result" \in DOMAIN body.obj
    THEN [raw |-> body.obj.result]
    ELSE Nil

ErrUnexpectedEnd ==
    Err(<<"u", "n", "e", "x", "p", "e", "c", "t", "e", "d", " ", "e", "n", "d", " ",
          "o", "f", " ", "J", "S", "O", "N", " ", "i", "n", "p", "u", "t">>)
ErrUnmarshalType ==
    Err(<<"j", "s", "o", "n", ":", " ", "c", "a", "n", "n", "o", "t", " ",
          "u", "n", "m", "a", "r", "s", "h", "a", "l">>)

(***************************************************************************)
(* Result types (alchemy.go:51-66), by JSON tag                            *)
(***************************************************************************)
TokenMetadata ==
    [name |-> "string", symbol |-> "string", decimals |-> "uint8",
     supply |-> "string", isPaused |-> "bool"]
TokenIssueResult == [hash |-> "string", token |-> "string"]
TransactionResult == [hash |-> "string"]

ResultType(T) ==
    CASE T = "TokenMetadata" -> TokenMetadata
      [] T = "TokenIssueResult" -> TokenIssueResult
      [] T = "TransactionResult" -> TransactionResult

ZeroValue(goType) ==
    CASE goType = "string" -> <<>>
      [] goType = "uint8" -> 0
      [] goType = "bool" -> FALSE

\* Whether JSON value v can be stored in a field of the Go type.
Storable(v, goType) ==
    CASE goType = "string" -> IsStr(v)
      [] goType = "uint8" -> IsNum(v) /\ v.num >= 0 /\ v.num <= 255
      [] goType = "bool" -> IsBool(v)

GoValue(v) ==
    IF IsStr(v) THEN v.str ELSE IF IsNum(v) THEN v.num ELSE v.bool

\* json.Unmarshal of an object into a struct: each member with a matching field
\* is stored, null leaves the field, unknown members are skipped; a member of
\* the wrong type is skipped and reported as an UnmarshalTypeError.
UnmarshalStruct(members, schema) ==
    [ value |-> [f \in DOMAIN schema |->
                   IF f \in DOMAIN members /\ Storable(members[f], schema[f])
                   THEN GoValue(members[f])
                   ELSE ZeroValue(schema[f])],
      err |-> IF \E f \in DOMAIN schema :
                    /\ f \in DOMAIN members
                    /\ ~IsNull(members[f])
                    /\ ~Storable(members[f], schema[f])
              THEN ErrUnmarshalType ELSE Nil ]

\* var response TokenIssueResult; json.Unmarshal(result, &response)
\* (alchemy.go:175-180): the target is a struct, which null leaves at its zero
\* value; the handler's data is &response.
UnmarshalIntoStruct(result, schema) ==
    IF result = Nil THEN [data |-> Nil, err |-> ErrUnexpectedEnd]
    ELSE IF IsNull(result.raw)
         THEN [data |-> Ptr([f \in DOMAIN schema |-> ZeroValue(schema[f])]), err |-> Nil]
    ELSE IF ~IsObj(result.raw) THEN [data |-> Nil, err |-> ErrUnmarshalType]
    ELSE LET r == UnmarshalStruct(result.raw.obj, schema)
         IN  IF r.err # Nil THEN [data |-> Nil, err |-> r.err]
             ELSE [data |-> Ptr(r.value), err |-> Nil]

\* var response T; json.Unmarshal(result, &response) with T a pointer type
\* (alchemy.go:321-326): null sets the pointer to nil and reports no error.
UnmarshalIntoPointer(result, schema) ==
    IF result = Nil THEN [data |-> Nil, err |-> ErrUnexpectedEnd]
    ELSE IF IsNull(result.raw) THEN [data |-> Nil, err |-> Nil]
    ELSE IF ~IsObj(result.raw) THEN [data |-> Nil, err |-> ErrUnmarshalType]
    ELSE LET r == UnmarshalStruct(result.raw.obj, schema)
         IN  IF r.err # Nil THEN [data |-> Nil, err |-> r.err]
             ELSE [data |-> Ptr(r.value), err |-> Nil]

(***************************************************************************)
(* rpcCall and getBlockNumber: what they return for an HTTP outcome        *)
(***************************************************************************)
RpcErrorPrefix == <<"R", "P", "C", " ", "e", "r", "r", "o", "r", ":", " ">>

\* An rpcCall that hands out a non-null result without looking at the error.
rpcCallReturn_ResultFirst(outcome) ==
    IF Failed(outcome) THEN [result |-> Nil, err |-> outcome.fail]
    ELSE IF RawField(outcome.body) # Nil /\ ~IsNull(RawField(outcome.body).raw)
    THEN [result |-> RawField(outcome.body), err |-> Nil]
    ELSE IF ErrorField(outcome.body) # Nil
    THEN [result |-> Nil,
          err |-> Err(RpcErrorPrefix \o ErrorField(outcome.body).ptr.Message)]
    ELSE [result |-> RawField(outcome.body), err |-> Nil]

\* rpcCall, from the outcome of its POST (alchemy.go:344-365)
rpcCallReturn(outcome) ==
    IF Failed(outcome) THEN [result |-> Nil, err |-> outcome.fail]
    ELSE LET rpcRespError == ErrorField(outcome.body)
         IN  IF rpcRespError # Nil
             THEN [result |-> Nil,
                   err |-> Err(RpcErrorPrefix \o rpcRespError.ptr.Message)]
             ELSE [result |-> RawField(outcome.body), err |-> Nil]

HexDigits ==
    {"0", "1", "2", "3", "4", "5", "6", "7", "8", "9",
     "a", "b", "c", "d", "e", "f", "A", "B", "C", "D", "E", "F"}

HexValue(c) ==
    CASE c \in {"a", "A"} -> 10 [] c \in {"b", "B"} -> 11 [] c \in {"c", "C"} -> 12
      [] c \in {"d", "D"} -> 13 [] c \in {"e", "E"} -> 14 [] c \in {"f", "F"} -> 15
      [] OTHER -> CHOOSE d \in 0..9 : Digits[d + 1] = c

\* The longest prefix of s made of hexadecimal digits.
RECURSIVE HexToken(_)
HexToken(s) ==
    IF Len(s) = 0 \/ s[1] \notin HexDigits THEN <<>>
    ELSE <<s[1]>> \o HexToken(Tail(s))

\* strconv.ParseInt(tok, 16, 64) of a non-empty token of hex digits
RECURSIVE ParseHex(_)
ParseHex(tok) ==
    IF Len(tok) = 0 THEN 0
    ELSE 16 * ParseHex(SubSeq(tok, 1, Len(tok) - 1)) + HexValue(tok[Len(tok)])

\* var blockNumber int64; fmt.Sscanf(result, "0x%x", &blockNumber): the input
\* must start with the literal 0x and go on with at least one hex digit; when
\* the scan fails blockNumber keeps its zero value (the scan error is dropped).
Sscanf0x(result) ==
    IF Len(result) >= 2 /\ SubSeq(result, 1, 2) = <<"0", "x">>
       /\ HexToken(SubSeq(result, 3, Len(result))) # <<>>
    THEN ParseHex(HexToken(SubSeq(result, 3, Len(result))))
    ELSE 0

\* A getBlockNumber that drops the transport error as it drops the scan error.
getBlockNumberReturn_SwallowError(outcome) == [blockNumber |-> 0, err |-> Nil]

\* A getBlockNumber that reports an error when the answer holds no height.
getBlockNumberReturn_RejectUnreadable(outcome) ==
    IF Failed(outcome) THEN [blockNumber |-> 0, err |-> outcome.fail]
    ELSE IF Sscanf0x(StringField(outcome.body, "result")) = 0
    THEN [blockNumber |-> 0, err |-> Err(<<"n", "o", " ", "r", "e", "s", "u", "l", "t">>)]
    ELSE [blockNumber |-> Sscanf0x(StringField(outcome.body, "result")), err |-> Nil]

\* getBlockNumber, from the outcome of its POST (alchemy.go:370-388)
getBlockNumberReturn(outcome) ==
    IF Failed(outcome) THEN [blockNumber |-> 0, err |-> outcome.fail]
    ELSE [blockNumber |-> Sscanf0x(StringField(outcome.body, "result")), err |-> Nil]

(***************************************************************************)
(* generateSignature                                                       *)
(***************************************************************************)
KeyHexLen == 64

\* crypto.HexToECDSA accepts the hex form of a 32-byte, non-zero scalar.
\* (The upper limit, the curve order, is left out: no key of the model
\* reaches it.)
HexToECDSA_OK(hex) ==
    /\ Len(hex) = KeyHexLen
    /\ \A i \in 1..Len(hex) : hex[i] \in HexDigits
    /\ \E i \in 1..Len(hex) : hex[i] # "0"

ErrInvalidKey ==
    Err(<<"i", "n", "v", "a", "l", "i", "d", " ", "p", "r", "i", "v", "a", "t", "e",
          " ", "k", "e", "y", ":", " ">>
        \o <<"i", "n", "v", "a", "l", "i", "d", " ", "h", "e", "x", " ", "d", "a", "t", "a">>)
ErrSign ==
    Err(<<"s", "i", "g", "n", " ", "e", "r", "r", "o", "r", ":", " ">>)

IsSigningError(e) == e \in {ErrInvalidKey, ErrSign}

\* The Signature {R, S, V} that crypto.Sign yields for the Keccak-256 hash of
\* `message` under the key: the three decimal strings are determined by the
\* key and the message, which stand for them.
Signature(keyHex, message) == [signer |-> keyHex, message |-> message]

\* The key text generateSignature parses: privateKey without a leading "0x"
\* (alchemy.go:97-100).
PrivateKeyHex(key) ==
    IF Len(key) > 2 /\ SubSeq(key, 1, 2) = <<"0", "x">>
    THEN SubSeq(key, 3, Len(key))
    ELSE key

\* generateSignature(params) (alchemy.go:95-130), reading the global privateKey
\* as `key`; `order` is the order in which buildSortedMessage ranges over the
\* map, `primitiveOK` whether crypto.Sign succeeds.
generateSignature(m, order, key, primitiveOK) ==
    IF ~HexToECDSA_OK(PrivateKeyHex(key)) THEN [signature |-> Nil, err |-> ErrInvalidKey]
    ELSE IF ~primitiveOK THEN [signature |-> Nil, err |-> ErrSign]
    ELSE [signature |-> Ptr(Signature(PrivateKeyHex(key), buildSortedMessage(m, order))),
          err |-> Nil]

(***************************************************************************)
(* The parameter mappings of the signed operations                         *)
(***************************************************************************)
K_decimals == <<"d", "e", "c", "i", "m", "a", "l", "s">>
K_masterAuthority ==
    <<"m", "a", "s", "t", "e", "r", "A", "u", "t", "h", "o", "r", "i", "t", "y">>
K_name == <<"n", "a", "m", "e">>
K_nonce == <<"n", "o", "n", "c", "e">>
K_recentCheckpoint ==
    <<"r", "e", "c", "e", "n", "t", "C", "h", "e", "c", "k", "p", "o", "i", "n", "t">>
K_symbol == <<"s", "y", "m", "b", "o", "l">>
K_token == <<"t", "o", "k", "e", "n">>

\* CreateToken: nonce := int64(0); params := ... (alchemy.go:139-149)
CreateTokenNonce == 0

CreateTokenParams(c, bn) ==
    (K_decimals :> IntV(c.decimals))
    @@ (K_masterAuthority :> StrV(c.masterAuthority))
    @@ (K_name :> StrV(c.name))
    @@ (K_nonce :> IntV(CreateTokenNonce))
    @@ (K_recentCheckpoint :> IntV(bn))
    @@ (K_symbol :> StrV(c.symbol))

\* CreateToken: reqParams (alchemy.go:156-168)
CreateTokenReqParams(c, bn, signature) ==
    [ decimals |-> c.decimals,
      master_authority |-> c.masterAuthority,
      name |-> c.name,
      symbol |-> c.symbol,
      nonce |-> CreateTokenNonce,
      recent_checkpoint |-> bn,
      signature |-> signature ]

\* A parameter mapping that signs the method name too.
dynamicCallParams_WithMethod(c, bn) ==
    (K_recentCheckpoint :> IntV(bn))
    @@ (K_nonce :> IntV(c.nonce))
    @@ (K_token :> StrV(c.tokenAddress))
    @@ (<<"m", "e", "t", "h", "o", "d", "N", "a", "m", "e">> :> StrV(<<c.methodName>>))

\* dynamicCallWithType: params (alchemy.go:293-297)
dynamicCallParams(c, bn) ==
    (K_recentCheckpoint :> IntV(bn))
    @@ (K_nonce :> IntV(c.nonce))
    @@ (K_token :> StrV(c.tokenAddress))

\* A payload that carries a checkpoint other than the signed one.
dynamicCallReqParams_StaleCheckpoint(c, bn, signature) ==
    [ nonce |-> c.nonce,
      token |-> c.tokenAddress,
      methodArgs |-> c.methodArgs,
      recent_checkpoint |-> 0,
      signature |-> signature ]

\* dynamicCallWithType: reqParams (alchemy.go:304-314)
dynamicCallReqParams(c, bn, signature) ==
    [ nonce |-> c.nonce,
      token |-> c.tokenAddress,
      methodArgs |-> c.methodArgs,
      recent_checkpoint |-> bn,
      signature |-> signature ]

SignedParams(c, bn) ==
    IF c.fn = "CreateToken" THEN CreateTokenParams(c, bn)
    ELSE dynamicCallParams(c, bn)

ReqParams(c, bn, signature) ==
    IF c.fn = "CreateToken" THEN CreateTokenReqParams(c, bn, signature)
    ELSE dynamicCallReqParams(c, bn, signature)

RpcMethod(c) == IF c.fn = "CreateToken" THEN "create_token" ELSE c.methodName

\* The decoding of rpcCall's result into the operation's result type.
UnmarshalResult(c, result) ==
    IF c.fn = "CreateToken" THEN UnmarshalIntoStruct(result, TokenIssueResult)
    ELSE UnmarshalIntoPointer(result, ResultType(c.T))

\* A post of the application request to the URL compiled in, whatever Config set.
RpcRequest_DefaultURL(url, method, reqParams) ==
    [url |-> DefaultURL \o "/rpc", method |-> method, params |-> reqParams]

(***************************************************************************)
(* HTTP requests                                                           *)
(***************************************************************************)
\* getBlockNumber's POST to baseURL (alchemy.go:370-371)
BlockNumberRequest(url) == [url |-> url, method |-> "eth_blockNumber"]
\* rpcCall's POST to baseURL + "/rpc" (alchemy.go:336-344)
RpcRequest(url, method, reqParams) ==
    [url |-> url \o "/rpc", method |-> method, params |-> reqParams]
\* GetBalance's POST to baseURL (alchemy.go:237-245)
BalanceRequest(url, address) ==
    [url |-> url, method |-> "eth_getBalance",
     params |-> [address |-> address, block |-> "latest"]]

(***************************************************************************)
(* math/big in GetBalance.  A big.Int is its sequence of decimal digits,   *)
(* most significant first, zero being the empty sequence.                  *)
(***************************************************************************)
Front(ds) == SubSeq(ds, 1, Len(ds) - 1)

\* ds without its leading zeros.
TrimLeft(ds) ==
    IF \A i \in 1..Len(ds) : ds[i] = 0 THEN <<>>
    ELSE LET f == CHOOSE i \in 1..Len(ds) :
                     ds[i] # 0 /\ \A j \in 1..(i - 1) : ds[j] = 0
         IN  SubSeq(ds, f, Len(ds))

\* ds without its trailing zeros.
TrimRight(ds) ==
    IF \A i \in 1..Len(ds) : ds[i] = 0 THEN <<>>
    ELSE LET l == CHOOSE i \in 1..Len(ds) :
                     ds[i] # 0 /\ \A j \in (i + 1)..Len(ds) : ds[j] = 0
         IN  SubSeq(ds, 1, l)

\* The arithmetic works on limbs of four digits, to keep the recursion short.
DigitFromRight(ds, p) == IF p < Len(ds) THEN ds[Len(ds) - p] ELSE 0

ToLimbs(ds) ==
    LET n == (Len(ds) + 3) \div 4
    IN  [i \in 1..n |->
            LET j == 4 * (n - i)
            IN  DigitFromRight(ds, j) + 10 * DigitFromRight(ds, j + 1)
                + 100 * DigitFromRight(ds, j + 2) + 1000 * DigitFromRight(ds, j + 3)]

FromLimbs(ls) ==
    TrimLeft([q \in 1..(4 * Len(ls)) |->
                LET limb == ls[((q - 1) \div 4) + 1]
                    t == (q - 1) % 4
                IN  CASE t = 0 -> limb \div 1000
                      [] t = 1 -> (limb \div 100) % 10
                      [] t = 2 -> (limb \div 10) % 10
                      [] t = 3 -> limb % 10])

RECURSIVE LimbMulAdd(_, _, _)
LimbMulAdd(ls, k, carry) ==
    IF Len(ls) = 0
    THEN (IF carry = 0 THEN <<>>
          ELSE LimbMulAdd(<<>>, k, carry \div 10000) \o <<carry % 10000>>)
    ELSE LET v == ls[Len(ls)] * k + carry
         IN  LimbMulAdd(Front(ls), k, v \div 10000) \o <<v % 10000>>

\* ds * k + carry, for 0 <= carry <= k < 2^17.
MulAdd(ds, k, carry) == FromLimbs(LimbMulAdd(ToLimbs(ds), k, carry))

\* a < b, for digit sequences without leading zeros.
DigitsLess(a, b) ==
    \/ Len(a) < Len(b)
    \/ /\ Len(a) = Len(b)
       /\ \E i \in 1..Len(a) : a[i] < b[i] /\ \A j \in 1..(i - 1) : a[j] = b[j]

\* acc * 16^Len(s) + the value of the hex digits s
RECURSIVE HexAccumulate(_, _)
HexAccumulate(acc, s) ==
    IF Len(acc) >= 0 /\ Len(s) = 0 THEN acc
    ELSE HexAccumulate(MulAdd(acc, 16, HexValue(s[1])), Tail(s))

\* new(big.Int).SetString(s, 16), for s a non-empty string of hex digits
SetStringHex(s) == HexAccumulate(<<>>, s)

\* (*big.Int).String()
IntString(ds) ==
    IF Len(ds) = 0 THEN <<"0">> ELSE [i \in 1..Len(ds) |-> Digits[ds[i] + 1]]

\* ds * 2^n
RECURSIVE MulPow2(_, _)
MulPow2(ds, n) ==
    IF Len(ds) >= 0 /\ n >= 16 THEN MulPow2(MulAdd(ds, 65536, 0), n - 16)
    ELSE MulAdd(ds, 2^n, 0)

Pow2(n) == MulPow2(<<1>>, n)

\* ds * 5^n
RECURSIVE MulPow5(_, _)
MulPow5(ds, n) ==
    IF Len(ds) >= 0 /\ n >= 7 THEN MulPow5(MulAdd(ds, 78125, 0), n - 7)
    ELSE MulAdd(ds, 5^n, 0)

\* (*big.Int).BitLen(): the least n with ds < 2^n
BitLen(ds) ==
    CHOOSE n \in 0..(4 * Len(ds)) :
        /\ DigitsLess(ds, Pow2(n))
        /\ n > 0 => ~DigitsLess(ds, Pow2(n - 1))

Zeros(n) == [i \in 1..n |-> 0]

\* big.NewFloat(1e18): the divisor 10^18, exactly representable.
WeiPerEthDigits == 18

MinFloatPrec == 64

\* new(big.Float).SetInt(wei): the precision max(wei.BitLen(), 64); the value
\* is exact.
SetIntPrec(bits) == IF bits > MinFloatPrec THEN bits ELSE MinFloatPrec

\* Quo(_, 10^18) rounds the quotient to prec mantissa bits: the result is
\* mant * 2^(-shift), shift being the least s with
\* wei * 2^s >= 2^(prec-1) * 10^18.  2^59 < 10^18 < 2^60 leaves two candidates.
QuoShiftAt(wei, bits, prec) ==
    IF DigitsLess(MulPow2(wei, prec - bits + 59),
                  Pow2(prec - 1) \o Zeros(WeiPerEthDigits))
    THEN prec - bits + 60
    ELSE prec - bits + 59

QuoShift(wei, bits) == QuoShiftAt(wei, bits, SetIntPrec(bits))

\* Rounding to nearest even: quo the quotient by 10^18, rem the remainder's
\* 18 digits without trailing zeros.
RoundNearestEven(quo, rem) ==
    IF (IF rem = <<5>> THEN quo[Len(quo)] % 2 = 1
        ELSE Len(rem) > 0 /\ rem[1] >= 5)
    THEN MulAdd(quo, 1, 1)
    ELSE quo

QuoMant(scaled) ==
    RoundNearestEven(SubSeq(scaled, 1, Len(scaled) - WeiPerEthDigits),
                     TrimRight(SubSeq(scaled, Len(scaled) - WeiPerEthDigits + 1,
                                      Len(scaled))))

QuoAtShift(wei, shift) == [mant |-> QuoMant(MulPow2(wei, shift)), shift |-> shift]

\* new(big.Float).SetInt(wei) followed by Quo(_, big.NewFloat(1e18)), wei > 0
QuoWeiPerEth(wei) == QuoAtShift(wei, QuoShift(wei, BitLen(wei)))

\* The decimal form of a big.Float mant * 2^(-shift) (decimal.init): digits
\* without trailing zeros and exponent exp, the value being 0.mant * 10^exp.
DecimalAt(d, shift) == [mant |-> TrimRight(d), exp |-> Len(d) - shift]

DecimalInit(q) == DecimalAt(MulPow5(q.mant, q.shift), q.shift)

FloatDecimal(wei) ==
    IF Len(wei) = 0 THEN [mant |-> <<>>, exp |-> 0]
    ELSE DecimalInit(QuoWeiPerEth(wei))

\* The last index i <= n with mant[i] < 9, or 0.
RECURSIVE LastBelow9(_, _)
LastBelow9(mant, n) ==
    IF n = 0 THEN 0 ELSE IF mant[n] < 9 THEN n ELSE LastBelow9(mant, n - 1)

\* decimal.round(n): to n digits, half to even.
DecimalRound(d, n) ==
    IF n >= Len(d.mant) THEN d
    ELSE LET up == IF d.mant[n + 1] = 5 /\ n + 1 = Len(d.mant)
                   THEN n > 0 /\ d.mant[n] % 2 = 1
                   ELSE d.mant[n + 1] >= 5
             i == LastBelow9(d.mant, n)
         IN  IF ~up THEN [mant |-> TrimRight(SubSeq(d.mant, 1, n)), exp |-> d.exp]
             ELSE IF i = 0 THEN [mant |-> <<1>>, exp |-> d.exp + 1]
             ELSE [mant |-> SubSeq(d.mant, 1, i - 1) \o <<d.mant[i] + 1>>, exp |-> d.exp]

DigitChars(ds) == [i \in 1..Len(ds) |-> Digits[ds[i] + 1]]

\* The digit at 0-based index i of the mantissa, 0 beyond it (decimal.at).
DigitAt(d, i) == IF i >= 0 /\ i < Len(d.mant) THEN d.mant[i + 1] ELSE 0

\* fmtE(buf, 'e', prec, d)
FmtE(d, prec) ==
    LET first == IF Len(d.mant) > 0 THEN <<Digits[d.mant[1] + 1]>> ELSE <<"0">>
        more == IF prec > 0
                THEN <<".">> \o [i \in 1..prec |-> Digits[DigitAt(d, i) + 1]]
                ELSE <<>>
        e == IF Len(d.mant) > 0 THEN d.exp - 1 ELSE 0
        mag == IF e < 0 THEN -e ELSE e
    IN  first \o more \o <<"e">> \o (IF e < 0 THEN <<"-">> ELSE <<"+">>)
        \o (IF mag < 10 THEN <<"0">> ELSE <<>>) \o FormatNat(mag)

\* fmtF(buf, prec, d)
FmtF(d, prec) ==
    LET int == IF d.exp > 0
               THEN [i \in 1..d.exp |-> Digits[DigitAt(d, i - 1) + 1]]
               ELSE <<"0">>
        frac == IF prec > 0
                THEN <<".">> \o [i \in 1..prec |-> Digits[DigitAt(d, d.exp + i - 1) + 1]]
                ELSE <<>>
    IN  int \o frac

TextPrec == 10

\* %g of the rounded decimal d: %e if the exponent is < -4 or >= eprec, else %f
FormatG(d) ==
    LET eprec == IF TextPrec > Len(d.mant) /\ Len(d.mant) >= d.exp
                 THEN Len(d.mant) ELSE TextPrec
        n == Len(d.mant)
    IN  IF d.exp - 1 < -4 \/ d.exp - 1 >= eprec
        THEN FmtE(d, (IF TextPrec > n THEN n ELSE TextPrec) - 1)
        ELSE LET prec == IF TextPrec > d.exp THEN n ELSE TextPrec
             IN  FmtF(d, IF prec - d.exp > 0 THEN prec - d.exp ELSE 0)

\* (*big.Float).String() = Text('g', 10)
FloatString(d) == FormatG(DecimalRound(d, TextPrec))

\* The BalanceInfo of balanceWei (alchemy.go:273-280)
BalanceInfoOf(balanceWei) ==
    [wei |-> IntString(balanceWei), eth |-> FloatString(FloatDecimal(balanceWei))]

\* GetBalance, alchemy.go:270-280: the BalanceInfo for balanceHex of length >= 2
BalanceInfo(hexText) == BalanceInfoOf(SetStringHex(SubSeq(hexText, 3, Len(hexText))))
(***************************************************************************)
(* The caller's inputs and the servers' answers                            *)
(***************************************************************************)
MaxNonce == 1

Nonces == 0..MaxNonce
Tokens == { <<"0", "x", "T", "1">>, <<"0", "x", "T", "2">> }
Account == <<"0", "x", "A">>
Amount == <<"5">>
Role == <<"M", "I", "N", "T", "_", "R", "O", "L", "E">>
TokenNames == { <<"T">>, <<"M", "y", " ", "T", "o", "k", "e", "n">> }
TokenSymbol == <<"T", "K">>
DecimalsArgs == {18}
MasterAuthority == <<"0", "x", "A", "u", "t", "h">>

OtherURL == "http://x"
Key1 == [i \in 1..KeyHexLen |-> Digits[(i % 10) + 1]]
Key2 == [i \in 1..KeyHexLen |-> IF i % 2 = 1 THEN "a" ELSE "B"]
\* The endpoints and keys Config is called with: a key without and a key with
\* the 0x prefix, and the empty key.
ConfigURLs == {DefaultURL, OtherURL}
ConfigKeys == {<<>>, Key1, <<"0", "x">> \o Key2}

Envelope(members) == JObj([id |-> JNum(1)] @@ members)

ServerMessage == <<"n", "o", "n", "c", "e", " ", "t", "o", "o", " ", "l", "o", "w">>
RpcErrorObject == JObj([message |-> JStr(ServerMessage)])
GoodResult ==
    JObj([hash |-> JStr(<<"0", "x", "a", "b", "c">>),
          token |-> JStr(<<"0", "x", "d", "e", "f">>),
          name |-> JStr(<<"T">>), decimals |-> JNum(18), isPaused |-> JBool(TRUE)])

\* What the chain node answers to eth_blockNumber.
BlockNumberOutcomes ==
    { HttpFail,
      HttpBody(Malformed),
      HttpBody(Envelope([jsonrpc |-> JStr(<<"2", ".", "0">>)])),
      HttpBody(Envelope([result |-> JStr(<<"0", "x", "1", "0">>)])),
      HttpBody(Envelope([result |-> JStr(<<"1", "6">>)])),
      HttpBody(Envelope([error |-> RpcErrorObject])) }

\* What the application server answers to an RPC request.
RpcOutcomes ==
    { HttpFail,
      HttpBody(Malformed),
      HttpBody(Envelope([jsonrpc |-> JStr(<<"2", ".", "0">>)])),
      HttpBody(Envelope([result |-> JNull, error |-> JNull])),
      HttpBody(Envelope([result |-> JNull, error |-> RpcErrorObject])),
      HttpBody(Envelope([result |-> GoodResult, error |-> RpcErrorObject])),
      HttpBody(Envelope([error |-> JObj([code |-> JNum(3)])])),
      HttpBody(Envelope([result |-> GoodResult, error |-> JNull])),
      HttpBody(Envelope([result |-> JStr(<<"o", "k">>), error |-> JNull])),
      HttpBody(Envelope([result |-> JObj([hash |-> JNum(5)]), error |-> JNull])) }

BalanceHexes ==
    { <<"0", "x", "0">>,
      <<"0", "x", "1">>,
      <<"0", "x", "d", "e", "0", "b", "6", "b", "3", "a", "7", "6", "4", "0", "0", "0", "0">>,
      <<"0", "x", "6", "f", "0", "5", "b", "5", "9", "d", "3", "b", "2", "0", "0", "0", "0">>,
      <<"0", "x", "d", "e", "0", "b", "6", "b", "3", "a", "7", "6", "4", "0", "0", "0", "1">>,
      <<"0", "x", "3", "6", "3", "5", "c", "9", "a", "d", "c", "5", "d", "e", "a", "0", "0", "0", "0", "0">>,
      <<"0", "x", "f", "f", "f", "f", "f", "f", "f", "f", "f", "f", "f", "f", "f", "f", "f", "f", "f", "f", "f", "f">> }

\* What the chain node answers to eth_getBalance.
BalanceOutcomes ==
    { HttpFail,
      HttpBody(Malformed),
      HttpBody(Envelope([jsonrpc |-> JStr(<<"2", ".", "0">>)])),
      HttpBody(Envelope([result |-> JNull])),
      HttpBody(Envelope([result |-> JStr(<<"0">>)])),
      HttpBody(Envelope([error |-> RpcErrorObject])) }
    \cup { HttpBody(Envelope([result |-> JStr(h)])) : h \in BalanceHexes }

(***************************************************************************)
(* State                                                                   *)
(***************************************************************************)
NoCall == [fn |-> "none"]
NoWrapper == [none |-> TRUE]

InitCall ==
    /\ pc = "idle"
    /\ call = NoCall
    /\ blockNum = 0
    /\ balanceHex = <<>>
    /\ sent = <<>>
    /\ received = <<>>
    /\ steps = <<>>
    /\ sig = Nil
    /\ interleaved = FALSE
    /\ wrapper = NoWrapper
    /\ applied = {}
    /\ callbacks = <<>>

InitNoMsg ==
    /\ params = <<>>
    /\ signerOrder = <<>>
    /\ verifierOrder = <<>>
    /\ signerMsg = NotBuilt
    /\ verifierMsg = NotBuilt

Init == InitConfig /\ InitCall /\ InitNoMsg

(***************************************************************************)
(* Config                                                                  *)
(***************************************************************************)
\* Whether the call in flight, if any, has a read of the globals ahead of it.
\* (GetBalance reads baseURL once, on entry; a signed operation reads baseURL
\* on entry, privateKey when it signs and baseURL again when rpcCall posts.)
GlobalsReadAhead == pc \in {"getBlockNumber", "generateSignature", "signed"}

\* Config(url, key) (alchemy.go:25-28); unsynchronized, so it may run between
\* any two steps of a call in flight.  A Config that runs after the call's
\* last read of the globals acts as one that runs when the caller has dropped
\* the handler: it is taken then.
Config ==
    /\ pc = "idle" \/ GlobalsReadAhead
    /\ \E url \in ConfigURLs, key \in ConfigKeys :
          /\ baseURL' = url
          /\ privateKey' = key
    /\ interleaved' = (interleaved \/ pc # "idle")
    /\ UNCHANGED <<pc, call, blockNum, balanceHex, sent, received, steps, sig,
                   wrapper, applied, callbacks, msgVars>>

(***************************************************************************)
(* The signed operations                                                   *)
(***************************************************************************)
\* The operation returns its *ResponseHandler to the caller.
Return(handler) ==
    /\ wrapper' = handler
    /\ pc' = "returned"

\* The entry of a signed operation: getBlockNumber posts its request.
Enter(c) ==
    /\ call' = c
    /\ sent' = <<BlockNumberRequest(baseURL)>>
    /\ steps' = <<"getBlockNumber">>
    /\ pc' = "getBlockNumber"
    /\ UNCHANGED <<blockNum, balanceHex, received, sig, interleaved, wrapper, applied,
                   callbacks, cfgVars, msgVars>>

\* The public operations are called one at a time: when no call is in flight.

\* CreateToken(name, symbol, decimals, masterAuthority) (alchemy.go:133)
CreateToken ==
    /\ pc = "idle"
    /\ \E name \in TokenNames, decimals \in DecimalsArgs :
          Enter([fn |-> "CreateToken", name |-> name, symbol |-> TokenSymbol,
                 decimals |-> decimals, masterAuthority |-> MasterAuthority])

\* dynamicCallWithType[T](tokenAddress, methodName, methodArgs, nonce)
dynamicCallWithType(T, tokenAddress, methodName, methodArgs, nonce) ==
    Enter([fn |-> "dynamicCallWithType", T |-> T, tokenAddress |-> tokenAddress,
           methodName |-> methodName, methodArgs |-> methodArgs, nonce |-> nonce])

\* dynamicCall (alchemy.go:330-332)
dynamicCall(tokenAddress, methodName, methodArgs, nonce) ==
    dynamicCallWithType("TransactionResult", tokenAddress, methodName, methodArgs, nonce)

GetTokenMetadata ==
    /\ pc = "idle"
    /\ \E tokenAddress \in Tokens :
          dynamicCallWithType("TokenMetadata", tokenAddress, "getTokenMetadata", <<>>, 0)

UpdateMetadata ==
    /\ pc = "idle"
    /\ \E tokenAddress \in Tokens, nonce \in Nonces :
          dynamicCall(tokenAddress, "updateMetadata", <<<<"N">>, TokenSymbol>>, nonce)

Mint ==
    /\ pc = "idle"
    /\ \E tokenAddress \in Tokens, nonce \in Nonces :
          dynamicCall(tokenAddress, "mint", <<Account, Amount>>, nonce)

GrantAuthority ==
    /\ pc = "idle"
    /\ \E tokenAddress \in Tokens, nonce \in Nonces :
          dynamicCall(tokenAddress, "grantAuthority", <<Role, Account>>, nonce)

RevokeAuthority ==
    /\ pc = "idle"
    /\ \E tokenAddress \in Tokens, nonce \in Nonces :
          dynamicCall(tokenAddress, "revokeAuthority", <<Role, Account>>, nonce)

AdminBurn ==
    /\ pc = "idle"
    /\ \E tokenAddress \in Tokens, nonce \in Nonces :
          dynamicCall(tokenAddress, "adminBurn", <<Account, Amount>>, nonce)

Pause ==
    /\ pc = "idle"
    /\ \E tokenAddress \in Tokens, nonce \in Nonces :
          dynamicCall(tokenAddress, "pause", <<>>, nonce)

Unpause ==
    /\ pc = "idle"
    /\ \E tokenAddress \in Tokens, nonce \in Nonces :
          dynamicCall(tokenAddress, "unpause", <<>>, nonce)

AddToBlacklist ==
    /\ pc = "idle"
    /\ \E tokenAddress \in Tokens, nonce \in Nonces :
          dynamicCall(tokenAddress, "addToBlacklist", <<Account>>, nonce)

\* getBlockNumber returns to the operation (alchemy.go:134-137, 287-290).
BlockNumberFetched ==
    /\ pc = "getBlockNumber"
    /\ \E outcome \in BlockNumberOutcomes :
          LET r == getBlockNumberReturn(outcome)
          IN  /\ received' = Append(received, outcome)
              /\ IF r.err # Nil
                 THEN /\ Return(ResponseHandler(Nil, r.err))
                      /\ UNCHANGED blockNum
                 ELSE /\ blockNum' = r.blockNumber
                      /\ pc' = "generateSignature"
                      /\ UNCHANGED wrapper
    /\ UNCHANGED <<call, balanceHex, sent, steps, sig, interleaved, applied, callbacks,
                   cfgVars, msgVars>>

\* An operation that posts its request before it looks at the signer's error.
Sign_PostOnError ==
    /\ pc = "generateSignature"
    /\ \E order \in RangeOrders(SignedParams(call, blockNum)), primitiveOK \in BOOLEAN :
          LET s == generateSignature(SignedParams(call, blockNum), order,
                                     privateKey, primitiveOK)
          IN  /\ steps' = Append(steps, "generateSignature")
              /\ IF s.err # Nil
                 THEN /\ Return(ResponseHandler(Nil, s.err))
                      /\ sent' = Append(sent,
                                        RpcRequest(baseURL, RpcMethod(call),
                                                   ReqParams(call, blockNum, s.signature)))
                      /\ UNCHANGED sig
                 ELSE /\ sig' = s.signature
                      /\ pc' = "signed"
                      /\ UNCHANGED <<sent, wrapper>>
    /\ UNCHANGED <<call, blockNum, balanceHex, received, interleaved, applied, callbacks,
                   cfgVars, msgVars>>

\* The operation builds its parameter mapping and generateSignature signs it
\* with the privateKey it reads; a signing error ends the call
\* (alchemy.go:139-154, 292-302).
Sign ==
    /\ pc = "generateSignature"
    /\ \E order \in RangeOrders(SignedParams(call, blockNum)), primitiveOK \in BOOLEAN :
          LET s == generateSignature(SignedParams(call, blockNum), order,
                                     privateKey, primitiveOK)
          IN  /\ steps' = Append(steps, "generateSignature")
              /\ IF s.err # Nil
                 THEN /\ Return(ResponseHandler(Nil, s.err))
                      /\ UNCHANGED sig
                 ELSE /\ sig' = s.signature
                      /\ pc' = "signed"
                      /\ UNCHANGED wrapper
    /\ UNCHANGED <<call, blockNum, balanceHex, sent, received, interleaved, applied,
                   callbacks, cfgVars, msgVars>>

\* With the signature the operation assembles the request and rpcCall posts
\* it to the baseURL it reads then (alchemy.go:156-170, 304-316, 344).
PostRpc ==
    /\ pc = "signed"
    /\ sent' = Append(sent,
                      RpcRequest(baseURL, RpcMethod(call),
                                 ReqParams(call, blockNum, sig.ptr)))
    /\ steps' = Append(steps, "rpcCall")
    /\ pc' = "rpcCall"
    /\ UNCHANGED <<call, blockNum, balanceHex, received, sig, interleaved, wrapper,
                   applied, callbacks, cfgVars, msgVars>>

\* rpcCall returns to the operation, which decodes the result
\* (alchemy.go:170-180, 316-326).
RpcReturned ==
    /\ pc = "rpcCall"
    /\ \E outcome \in RpcOutcomes :
          LET r == rpcCallReturn(outcome)
              d == UnmarshalResult(call, r.result)
          IN  /\ received' = Append(received, outcome)
              /\ IF r.err # Nil
                 THEN /\ Return(ResponseHandler(Nil, r.err))
                      /\ UNCHANGED steps
                 ELSE /\ steps' = Append(steps, "Unmarshal")
                      /\ IF d.err # Nil
                         THEN Return(ResponseHandler(Nil, d.err))
                         ELSE Return(ResponseHandler(d.data, Nil))
    /\ UNCHANGED <<call, blockNum, balanceHex, sent, sig, interleaved, applied, callbacks,
                   cfgVars, msgVars>>

(***************************************************************************)
(* GetBalance                                                              *)
(***************************************************************************)
\* GetBalance(address) (alchemy.go:235-245): the POST to the chain node.
GetBalance ==
    /\ pc = "idle"
    /\ \E address \in {Account} :
          /\ call' = [fn |-> "GetBalance", address |-> address]
          /\ sent' = <<BalanceRequest(baseURL, address)>>
    /\ pc' = "GetBalance"
    /\ UNCHANGED <<blockNum, balanceHex, received, steps, sig, interleaved, wrapper,
                   applied, callbacks, cfgVars, msgVars>>

\* GetBalance from the outcome of its POST (alchemy.go:246-282): the handler it
\* returns, or a run-time panic: balanceHex[2:] with len(balanceHex) < 2 is a
\* slice out of range.
GetBalanceReturn(outcome) ==
    IF Failed(outcome)
    THEN [panic |-> FALSE, balanceHex |-> <<>>, handler |-> ResponseHandler(Nil, outcome.fail)]
    ELSE LET rpcRespError == ErrorField(outcome.body)
             hex == StringField(outcome.body, "result")
         IN  IF rpcRespError # Nil
             THEN [panic |-> FALSE, balanceHex |-> <<>>,
                   handler |-> ResponseHandler(Nil,
                                  Err(RpcErrorPrefix \o rpcRespError.ptr.Message))]
             ELSE IF Len(hex) < 2
             THEN [panic |-> TRUE, balanceHex |-> hex, handler |-> NoWrapper]
             ELSE [panic |-> FALSE, balanceHex |-> hex,
                   handler |-> ResponseHandler(Ptr(BalanceInfo(hex)), Nil)]

\* The node's answer arrives and GetBalance runs to its end.
BalanceReturned ==
    /\ pc = "GetBalance"
    /\ \E outcome \in BalanceOutcomes :
          LET r == GetBalanceReturn(outcome)
          IN  /\ received' = Append(received, outcome)
              /\ balanceHex' = r.balanceHex
              /\ IF r.panic
                 THEN pc' = "panic" /\ UNCHANGED wrapper
                 ELSE Return(r.handler)
    /\ UNCHANGED <<call, blockNum, sent, steps, sig, interleaved, applied, callbacks,
                   cfgVars, msgVars>>

(***************************************************************************)
(* ResponseHandler                                                         *)
(***************************************************************************)
\* A Success that runs its callback whatever the handler holds.
SuccessCalls_Always(r) == <<[callback |-> "success", arg |-> r.data]>>

\* r.Success(callback) (alchemy.go:36-41): the callbacks it runs, in order.
SuccessCalls(r) ==
    IF r.err = Nil THEN <<[callback |-> "success", arg |-> r.data]>> ELSE <<>>

\* r.Error(callback) (alchemy.go:43-48)
ErrorCalls(r) ==
    IF r.err # Nil THEN <<[callback |-> "error", arg |-> r.err]>> ELSE <<>>

\* What an accessor returns for chaining: r itself.
AccessorReturn(r) == r

\* The caller chains .Success(...) on the handler it holds.
Success ==
    /\ pc = "returned"
    /\ "Success" \notin applied
    /\ callbacks' = callbacks \o SuccessCalls(wrapper)
    /\ wrapper' = AccessorReturn(wrapper)
    /\ applied' = applied \cup {"Success"}
    /\ UNCHANGED <<pc, call, blockNum, balanceHex, sent, received, steps, sig, interleaved,
                   cfgVars, msgVars>>

\* The caller chains .Error(...) on the handler it holds.
Error ==
    /\ pc = "returned"
    /\ "Error" \notin applied
    /\ callbacks' = callbacks \o ErrorCalls(wrapper)
    /\ wrapper' = AccessorReturn(wrapper)
    /\ applied' = applied \cup {"Error"}
    /\ UNCHANGED <<pc, call, blockNum, balanceHex, sent, received, steps, sig, interleaved,
                   cfgVars, msgVars>>

\* The caller drops the handler; the next call starts afresh.
Discard ==
    /\ pc = "returned"
    /\ pc' = "idle"
    /\ call' = NoCall
    /\ blockNum' = 0
    /\ balanceHex' = <<>>
    /\ sent' = <<>>
    /\ received' = <<>>
    /\ steps' = <<>>
    /\ sig' = Nil
    /\ interleaved' = FALSE
    /\ wrapper' = NoWrapper
    /\ applied' = {}
    /\ callbacks' = <<>>
    /\ UNCHANGED <<cfgVars, msgVars>>

Next ==
    \/ Config
    \/ CreateToken
    \/ GetTokenMetadata
    \/ UpdateMetadata
    \/ Mint
    \/ GrantAuthority
    \/ RevokeAuthority
    \/ AdminBurn
    \/ Pause
    \/ Unpause
    \/ AddToBlacklist
    \/ GetBalance
    \/ BalanceReturned
    \/ BlockNumberFetched
    \/ Sign
    \/ PostRpc
    \/ RpcReturned
    \/ Success
    \/ Error
    \/ Discard

Spec == Init /\ [][Next]_vars

(***************************************************************************)
(* Specification SpecMsg: a signer and a verifier each build the canonical *)
(* message of the same parameter set, each with its own map iteration      *)
(* order.                                                                  *)
(***************************************************************************)
MaxKeys == 3

KeyNames ==
    { <<"T", "o", "k", "e", "n">>, <<"n", "a", "m", "e">>, <<"n", "o">>,
      <<"n", "o", "n", "c", "e">> }

ParamValues ==
    { IntV(18), IntV(-5), BoolV(TRUE), StrV(<<>>), StrV(<<"a", ",", "b">>) }

ParamSets ==
    UNION { [ks -> ParamValues] :
              ks \in {s \in SUBSET KeyNames : Cardinality(s) <= MaxKeys} }

InitMsg ==
    /\ InitConfig
    /\ InitCall
    /\ params \in ParamSets
    /\ signerOrder = <<>>
    /\ verifierOrder = <<>>
    /\ signerMsg = NotBuilt
    /\ verifierMsg = NotBuilt

SignerBuild ==
    /\ ~signerMsg.built
    /\ \E order \in RangeOrders(params) :
          /\ signerOrder' = order
          /\ signerMsg' = Built(buildSortedMessage(params, order))
    /\ UNCHANGED <<params, verifierOrder, verifierMsg, cfgVars, callVars>>

VerifierBuild ==
    /\ ~verifierMsg.built
    /\ \E order \in RangeOrders(params) :
          /\ verifierOrder' = order
          /\ verifierMsg' = Built(buildSortedMessage(params, order))
    /\ UNCHANGED <<params, signerOrder, signerMsg, cfgVars, callVars>>

NextMsg == SignerBuild \/ VerifierBuild

SpecMsg == InitMsg /\ [][NextMsg]_vars

(***************************************************************************)
(* Properties                                                              *)
(***************************************************************************)

\* C1: the signer and the verifier, building the canonical message of the same
\* parameter set (same keys, same value for each key) with whatever map
\* iteration orders, obtain the same message.
C1_OrderIndependent ==
    (signerMsg.built /\ verifierMsg.built) => signerMsg.msg = verifierMsg.msg

\* Both have built the message of a mapping of at least two keys, and visited
\* the keys in different orders.
C1_Witness ==
    /\ signerMsg.built /\ verifierMsg.built
    /\ Cardinality(DOMAIN params) >= 2
    /\ signerOrder # verifierOrder

\* What the accessors applied so far to the handler the caller holds have run.
C2_OnlyMatchingCallbacks ==
    /\ \A i \in 1..Len(callbacks) :
          /\ callbacks[i].callback = "success" =>
                wrapper.err = Nil /\ callbacks[i].arg = wrapper.data
          /\ callbacks[i].callback = "error" =>
                wrapper.err # Nil /\ callbacks[i].arg = wrapper.err
    /\ ("Success" \in applied /\ wrapper.err = Nil) =>
          \E i \in 1..Len(callbacks) : callbacks[i].callback = "success"
    /\ ("Error" \in applied /\ wrapper.err # Nil) =>
          \E i \in 1..Len(callbacks) : callbacks[i].callback = "error"
    /\ applied = {"Success", "Error"} => Len(callbacks) = 1

\* A step that applies an accessor leaves the handler as it was.
C2_AccessorKeepsHandler ==
    (applied \subseteq applied' /\ applied' # applied) => wrapper' = wrapper

\* C2: Success runs its callback only on a handler without error, Error only
\* on a handler with an error, so that once both have been chained on a
\* handler exactly one callback has run, exactly once; each accessor returns
\* the handler with its data and error unchanged.
C2_Accessors == []C2_OnlyMatchingCallbacks /\ [][C2_AccessorKeepsHandler]_vars

\* Both accessors have been chained on a handler that holds an error, and the
\* error callback alone has run, once, with that error.
C2_Witness ==
    /\ applied = {"Success", "Error"}
    /\ wrapper.err # Nil
    /\ callbacks = <<[callback |-> "error", arg |-> wrapper.err]>>

\* The response envelope carries an error member that is not null.
C3_CarriesError(outcome) ==
    /\ ~Failed(outcome)
    /\ IsObj(outcome.body)
    /\ "error" \in DOMAIN outcome.body.obj
    /\ ~IsNull(outcome.body.obj.error)

\* The message the server supplies in the error member ("" when it has none).
C3_SuppliedMessage(outcome) ==
    IF "message" \in DOMAIN outcome.body.obj.error.obj
       /\ IsStr(outcome.body.obj.error.obj.message)
    THEN outcome.body.obj.error.obj.message.str
    ELSE <<>>

\* C3: when the application server's response envelope carries a non-null
\* error, the signed operation returns a handler whose error reads
\* "RPC error: " followed by the server's message and which holds no data,
\* whatever the result member holds; the success callback does not run and
\* the error accessor runs its callback with that error.
C3_RpcErrorSurfaced ==
    (Len(received) = 2 /\ C3_CarriesError(received[2])) =>
        /\ pc = "returned"
        /\ wrapper.data = Nil
        /\ wrapper.err = Err(<<"R", "P", "C", " ", "e", "r", "r", "o", "r", ":", " ">>
                             \o C3_SuppliedMessage(received[2]))
        /\ \A i \in 1..Len(callbacks) : callbacks[i].callback = "error"
        /\ "Error" \in applied =>
              callbacks = <<[callback |-> "error", arg |-> wrapper.err]>>

\* The server answered with a well-formed result and an error at once, and the
\* caller has chained both accessors.
C3_Witness ==
    /\ Len(received) = 2
    /\ C3_CarriesError(received[2])
    /\ "result" \in DOMAIN received[2].body.obj
    /\ IsObj(received[2].body.obj.result)
    /\ applied = {"Success", "Error"}

\* C4 (as stated): in any execution of a signed operation that ends with a
\* signing error, no HTTP request of that call has been sent.
C4_NoRequestBeforeSigningError ==
    (pc = "returned" /\ IsSigningError(wrapper.err)) => sent = <<>>

\* C4 (amended): in any execution of a signed operation that ends with a
\* signing error, the one HTTP request of that call that has been sent is the
\* block-height request to the chain node, whose answer has arrived; no
\* application RPC request has been sent.
C4_NoRpcBeforeSigningError ==
    (pc = "returned" /\ IsSigningError(wrapper.err)) =>
        /\ Len(sent) = 1
        /\ sent[1].method = "eth_blockNumber"
        /\ Len(received) = 1
        /\ steps = <<"getBlockNumber", "generateSignature">>

\* A dynamicCall-based operation has ended with the error of a malformed
\* configured private key.
C4_Witness ==
    /\ pc = "returned"
    /\ call.fn = "dynamicCallWithType"
    /\ wrapper.err = ErrInvalidKey

\* C5: no public operation, GetBalance included, ends in a panic, whatever the
\* server answers: a response that is no success leaves a handler holding an
\* error; and no request is sent twice or to another endpoint than those of
\* the operation (at most the block-height request and one application RPC
\* request, or the one balance request).
C5_FailuresThroughErrorAccessor ==
    /\ pc # "panic"
    /\ Len(sent) <= (IF call.fn = "GetBalance" THEN 1 ELSE 2)
    /\ \A i, j \in 1..Len(sent) : i # j => sent[i].method # sent[j].method

\* C6: the handler a public operation returns holds either a result or an
\* error: exactly one of data and err is non-nil.
C6_ResultXorError ==
    pc = "returned" => ((wrapper.err = Nil) # (wrapper.data = Nil))

\* The keys of m in ascending lexicographic order.
C7_AscendingKeys(m) ==
    CHOOSE ks \in Orders(DOMAIN m) :
        \A i \in 1..(Len(ks) - 1) : StrLess(ks[i], ks[i + 1])

\* The default string form of each value a parameter set of SpecMsg holds.
C7_DefaultForm(value) ==
    CASE value = IntV(18) -> <<"1", "8">>
      [] value = IntV(-5) -> <<"-", "5">>
      [] value = BoolV(TRUE) -> <<"t", "r", "u", "e">>
      [] value = StrV(<<>>) -> <<>>
      [] value = StrV(<<"a", ",", "b">>) -> <<"a", ",", "b">>

\* The forms of m's values from the i-th key of ks on, one comma between two
\* neighbours.
RECURSIVE C7_CommaSeparated(_, _, _)
C7_CommaSeparated(m, ks, i) ==
    IF i > Len(ks) THEN <<>>
    ELSE IF i = Len(ks) THEN C7_DefaultForm(m[ks[i]])
    ELSE C7_DefaultForm(m[ks[i]]) \o <<",">> \o C7_CommaSeparated(m, ks, i + 1)

\* C7: the canonical message of a parameter set is the default string forms
\* of its values, in ascending lexicographic order of their keys, with a single
\* comma between two neighbours and nothing before the first or after the
\* last, values copied without escaping or quoting; one key yields its value's
\* form alone and the empty mapping yields the empty string.
C7_CanonicalForm ==
    signerMsg.built =>
        /\ signerMsg.msg = C7_CommaSeparated(params, C7_AscendingKeys(params), 1)
        /\ DOMAIN params = {} => signerMsg.msg = <<>>
        /\ \A k \in DOMAIN params :
              DOMAIN params = {k} => signerMsg.msg = C7_DefaultForm(params[k])

\* The signer has built the message of a mapping of three keys, one of them
\* holding a string with a comma in it, visiting the keys in an order that is
\* not the ascending one.
C7_Witness ==
    /\ signerMsg.built
    /\ Cardinality(DOMAIN params) = 3
    /\ \E k \in DOMAIN params : params[k] = StrV(<<"a", ",", "b">>)
    /\ signerOrder # C7_AscendingKeys(params)

\* The decimal form of each amount of BalanceHexes.
C8_Decimal(h) ==
    CASE h = <<"0", "x", "0">> -> <<"0">>
      [] h = <<"0", "x", "1">> -> <<"1">>
      [] h = <<"0", "x", "d", "e", "0", "b", "6", "b", "3", "a", "7", "6", "4",
               "0", "0", "0", "0">>
           -> <<"1", "0", "0", "0", "0", "0", "0", "0", "0", "0", "0", "0", "0",
                "0", "0", "0", "0", "0", "0">>
      [] h = <<"0", "x", "6", "f", "0", "5", "b", "5", "9", "d", "3", "b", "2",
               "0", "0", "0", "0">>
           -> <<"5", "0", "0", "0", "0", "0", "0", "0", "0", "0", "0", "0", "0",
                "0", "0", "0", "0", "0">>
      [] h = <<"0", "x", "d", "e", "0", "b", "6", "b", "3", "a", "7", "6", "4",
               "0", "0", "0", "1">>
           -> <<"1", "0", "0", "0", "0", "0", "0", "0", "0", "0", "0", "0", "0",
                "0", "0", "0", "0", "0", "1">>
      [] h = <<"0", "x", "3", "6", "3", "5", "c", "9", "a", "d", "c", "5", "d",
               "e", "a", "0", "0", "0", "0", "0">>
           -> <<"1", "0", "0", "0", "0", "0", "0", "0", "0", "0", "0", "0", "0",
                "0", "0", "0", "0", "0", "0", "0", "0", "0">>
      [] h = <<"0", "x", "f", "f", "f", "f", "f", "f", "f", "f", "f", "f", "f",
               "f", "f", "f", "f", "f", "f", "f", "f", "f">>
           -> <<"1", "2", "0", "8", "9", "2", "5", "8", "1", "9", "6", "1", "4",
                "6", "2", "9", "1", "7", "4", "7", "0", "6", "1", "7", "5">>

\* The position of character c in s, 0 when s has none.
C8_Index(s, c) ==
    IF \E i \in 1..Len(s) : s[i] = c
    THEN CHOOSE i \in 1..Len(s) : s[i] = c /\ \A j \in 1..(i - 1) : s[j] # c
    ELSE 0

\* The number a string of decimal digits writes.
RECURSIVE C8_Nat(_)
C8_Nat(s) ==
    IF Len(s) = 0 THEN 0
    ELSE 10 * C8_Nat(SubSeq(s, 1, Len(s) - 1))
         + (CHOOSE d \in 0..9 : Digits[d + 1] = s[Len(s)])

\* The number digits * 10^exp in normal form: digits without leading or
\* trailing zeros; zero is no digit and exponent 0.
C8_Normal(digits, exp) ==
    IF \A i \in 1..Len(digits) : digits[i] = "0" THEN [digits |-> <<>>, exp |-> 0]
    ELSE LET first == CHOOSE i \in 1..Len(digits) :
                          digits[i] # "0" /\ \A j \in 1..(i - 1) : digits[j] = "0"
             last == CHOOSE i \in 1..Len(digits) :
                          digits[i] # "0" /\ \A j \in (i + 1)..Len(digits) : digits[j] = "0"
         IN  [digits |-> SubSeq(digits, first, last), exp |-> exp + Len(digits) - last]

\* The number a decimal text without exponent writes: digits, with or
\* without a point, scaled by 10^exp.
C8_Scaled(mantissa, exp) ==
    IF C8_Index(mantissa, ".") = 0 THEN C8_Normal(mantissa, exp)
    ELSE C8_Normal(SubSeq(mantissa, 1, C8_Index(mantissa, ".") - 1)
                   \o SubSeq(mantissa, C8_Index(mantissa, ".") + 1, Len(mantissa)),
                   exp - (Len(mantissa) - C8_Index(mantissa, ".")))

\* The number a decimal text writes: 12, 0.5, 1208925.82, 1e-18, 1.5e+21.
C8_Value(text) ==
    IF C8_Index(text, "e") = 0 THEN C8_Scaled(text, 0)
    ELSE C8_Scaled(SubSeq(text, 1, C8_Index(text, "e") - 1),
                   (IF text[C8_Index(text, "e") + 1] = "-" THEN -1 ELSE 1)
                   * C8_Nat(SubSeq(text, C8_Index(text, "e") + 2, Len(text))))

\* C8: for the hexadecimal wei amount h that the node returned, the handler
\* GetBalance returns holds Wei, the decimal form of h, and Eth, a decimal text
\* that writes exactly h / 10^18.
C8_ExactBalance ==
    (pc = "returned" /\ call.fn = "GetBalance" /\ wrapper.err = Nil) =>
        /\ wrapper.data.ptr.wei = C8_Decimal(balanceHex)
        /\ C8_Value(wrapper.data.ptr.eth)
             = C8_Normal(C8_Decimal(balanceHex), -WeiPerEthDigits)

\* The order of the steps of a signed operation.
C9_StepOrder == <<"getBlockNumber", "generateSignature", "rpcCall", "Unmarshal">>

C10_OfTokenCheckpointNonce(token, checkpoint, nonce) ==
    FormatInt(nonce) \o <<",">> \o FormatInt(checkpoint) \o <<",">> \o token

\* C10: the message a dynamicCall-based operation signs is a function of the
\* nonce, the checkpoint and the token address alone (so two calls that agree
\* on the three sign the same message, whatever their method and methodArgs),
\* while the request carries the method name and the methodArgs; the message
\* CreateToken signs is made of decimals, masterAuthority, name, nonce,
\* checkpoint and symbol.
C10_SignedFields ==
    (call.fn \in {"CreateToken", "dynamicCallWithType"} /\ Len(sent) = 2) =>
        IF call.fn = "CreateToken"
        THEN sent[2].params.signature.message
               = FormatInt(call.decimals) \o <<",">> \o call.masterAuthority
                 \o <<",">> \o call.name \o <<",">> \o <<"0">>
                 \o <<",">> \o FormatInt(blockNum) \o <<",">> \o call.symbol
        ELSE /\ sent[2].params.signature.message
                  = C10_OfTokenCheckpointNonce(call.tokenAddress, blockNum, call.nonce)
             /\ sent[2].method = call.methodName
             /\ sent[2].params.methodArgs = call.methodArgs

\* Mint has signed and posted its request, with a nonce and a checkpoint that
\* are not zero and with two methodArgs.
C10_Witness ==
    /\ Len(sent) = 2
    /\ call.fn = "dynamicCallWithType"
    /\ call.methodName = "mint"
    /\ Len(call.methodArgs) = 2
    /\ call.nonce > 0
    /\ blockNum > 0

\* The block height in each answer of BlockNumberOutcomes that carries one.
C11_FetchedHeight(outcome) ==
    IF outcome = HttpBody(Envelope([result |-> JStr(<<"0", "x", "1", "0">>)]))
    THEN 16
    ELSE 0

\* The canonical message that covers the nonce and the checkpoint of payload p.
C11_MessageOver(c, p) ==
    IF c.fn = "CreateToken"
    THEN FormatInt(c.decimals) \o <<",">> \o c.masterAuthority \o <<",">> \o c.name
         \o <<",">> \o FormatInt(p.nonce) \o <<",">> \o FormatInt(p.recent_checkpoint)
         \o <<",">> \o c.symbol
    ELSE FormatInt(p.nonce) \o <<",">> \o FormatInt(p.recent_checkpoint)
         \o <<",">> \o c.tokenAddress

\* C11: in the request a signed operation posts, the nonce and the
\* recent_checkpoint of the payload are the nonce and the recentCheckpoint of
\* the message that the attached signature covers; the checkpoint is the block
\* height fetched in this call; the nonce is 0 for CreateToken and the nonce
\* argument for the other operations (0 for GetTokenMetadata, which takes none).
C11_PayloadMatchesSigned ==
    (call.fn \in {"CreateToken", "dynamicCallWithType"} /\ Len(sent) = 2) =>
        /\ sent[2].params.signature.message = C11_MessageOver(call, sent[2].params)
        /\ sent[2].params.recent_checkpoint = C11_FetchedHeight(received[1])
        /\ sent[2].params.nonce = (IF call.fn = "CreateToken" THEN 0 ELSE call.nonce)
        /\ (call.fn = "dynamicCallWithType" /\ call.methodName = "getTokenMetadata") =>
              sent[2].params.nonce = 0

\* Pause has posted its request, with a caller-supplied nonce that is not zero
\* and the block height 16 that the node returned to this call.
C11_Witness ==
    /\ Len(sent) = 2
    /\ call.fn = "dynamicCallWithType"
    /\ call.methodName = "pause"
    /\ sent[2].params.nonce = 1
    /\ sent[2].params.recent_checkpoint = 16

\* What a signed operation has read of the globals so far agrees with their
\* present values: the block-height request went to baseURL, the signature is
\* by privateKey, the application request went to baseURL's /rpc.
C12_OnePair ==
    /\ Len(sent) >= 1 => sent[1].url = baseURL
    /\ sig # Nil => sig.ptr.signer = PrivateKeyHex(privateKey)
    /\ Len(sent) = 2 => sent[2].url = baseURL \o "/rpc"

\* C12: a signed operation reads the URL and the key of some other pair than
\* the configured one only when a Config has run while it was in flight; when
\* no Config interleaves with it, it posts both requests to the URL and signs
\* with the key that the latest Config set (the torn read itself, which a
\* concurrent Config makes reachable, is C12_Witness).
C12_TornOnlyUnderConfig ==
    call.fn \in {"CreateToken", "dynamicCallWithType"} =>
        (~interleaved => C12_OnePair)

\* A call that fetched the block height from the old URL, signed with the old
\* key and sent its application request to the new URL, whose key is another.
C12_Witness ==
    /\ call.fn \in {"CreateToken", "dynamicCallWithType"}
    /\ Len(sent) = 2
    /\ interleaved
    /\ sent[2].url # sent[1].url \o "/rpc"
    /\ sent[2].url = baseURL \o "/rpc"
    /\ sent[2].params.signature.signer # PrivateKeyHex(privateKey)
    /\ HexToECDSA_OK(PrivateKeyHex(privateKey))

\* A call that no Config interleaved with, sent to a URL set by Config.
C12_UntornWitness ==
    /\ call.fn \in {"CreateToken", "dynamicCallWithType"}
    /\ Len(sent) = 2
    /\ ~interleaved
    /\ baseURL = OtherURL

\* The answers to the block-height request that hold no height: a body that
\* is not JSON, an envelope without result, a result that is not 0x-prefixed
\* hexadecimal, an envelope with an error member.
C13_MalformedBody(outcome) == outcome = HttpBody(Malformed)

C13_NoResult(outcome) ==
    /\ ~Failed(outcome) /\ IsObj(outcome.body)
    /\ "result" \notin DOMAIN outcome.body.obj
    /\ "error" \notin DOMAIN outcome.body.obj

C13_ResultNotHex(outcome) ==
    /\ ~Failed(outcome) /\ IsObj(outcome.body)
    /\ "result" \in DOMAIN outcome.body.obj
    /\ IsStr(outcome.body.obj["result"])
    /\ \/ Len(outcome.body.obj["result"].str) < 2
       \/ SubSeq(outcome.body.obj["result"].str, 1, 2) # <<"0", "x">>

C13_ErrorEnvelope(outcome) ==
    /\ ~Failed(outcome) /\ IsObj(outcome.body)
    /\ "error" \in DOMAIN outcome.body.obj

C13_NoHeight(outcome) ==
    \/ C13_MalformedBody(outcome)
    \/ C13_NoResult(outcome)
    \/ C13_ResultNotHex(outcome)
    \/ C13_ErrorEnvelope(outcome)

\* C13: a signed operation ends at its block-height fetch exactly when the
\* request failed on the transport; when the answer's body is malformed, has
\* no result, has a result that is not 0x-prefixed hexadecimal, or carries an
\* error, the fetch yields checkpoint 0 and no error: the operation goes on to
\* signing, and the request it signs and sends carries checkpoint 0.
C13_OnlyTransportFailureStops ==
    (call.fn \in {"CreateToken", "dynamicCallWithType"} /\ Len(received) >= 1) =>
        /\ (pc = "returned" /\ steps = <<"getBlockNumber">>) <=> Failed(received[1])
        /\ C13_NoHeight(received[1]) =>
              /\ blockNum = 0
              /\ steps = <<"getBlockNumber">> => pc = "generateSignature"
              /\ Len(sent) = 2 =>
                    /\ sent[2].params.recent_checkpoint = 0
                    /\ sent[2].params.signature.message =
                          C11_MessageOver(call, [nonce |-> sent[2].params.nonce,
                                                 recent_checkpoint |-> 0])

\* The node answered the block-height request with an error envelope, and the
\* operation signed and sent its request with checkpoint 0 and succeeded.
C13_Witness ==
    /\ call.fn = "dynamicCallWithType"
    /\ Len(received) = 2
    /\ C13_ErrorEnvelope(received[1])
    /\ sent[2].params.recent_checkpoint = 0
    /\ pc = "returned"
    /\ wrapper.err = Nil
====
